---- MODULE Spec2Model ----
(***************************************************************************)
(* Room-access and gold-credit handlers of the chat server: createRoom,    *)
(* joinRoom and purchaseGold running concurrently against one PostgreSQL   *)
(* database.  Every awaited drizzle statement is one atomic step.  The     *)
(* statements of joinRoom and purchaseGold run in autocommit mode; the     *)
(* statements of createRoom run inside db.transaction (READ COMMITTED):    *)
(* its writes are buffered in the transaction, its UPDATE of the user row  *)
(* holds the row lock until COMMIT or ROLLBACK.                            *)
(* Row ids are positions in the tables (commit order); the gaps a rolled   *)
(* back transaction leaves in the serial sequences are not represented.    *)
(***************************************************************************)
EXTENDS Integers, Sequences, FiniteSets, TLC

VARIABLES
    usersTable,             \* user id -> [gold_credits]
    roomsTable,             \* sequence of room rows, id = position
    roomParticipantsTable,  \* sequence of participant rows
    goldTransactionsTable,  \* sequence of ledger rows
    proc,                   \* request handler -> its position and locals
    calls,                  \* number of handler calls started so far
    start,                  \* gold_credits every user was set up with
    last,                   \* handler and outcome of the call that ended last
    pre,                    \* tables as they were when a call running alone began
    rolesTable,             \* sequence of role rows
    messagesTable,          \* sequence of message rows, id = position
    lastSeenAt              \* (room, user) pairs whose participant rows had last_seen_at set

vars == <<usersTable, roomsTable, roomParticipantsTable,
          goldTransactionsTable, proc, calls, start, last, pre,
          rolesTable, messagesTable, lastSeenAt>>

tables == <<usersTable, roomsTable, roomParticipantsTable, goldTransactionsTable>>

\* what registerUser reads and sendMessage writes
chat == <<rolesTable, messagesTable, lastSeenAt>>

\* ---------------------------------------------------------------- bounds
MaxCalls == 3
MaxStart == 1

\* ---------------------------------------------------------------- inputs
Procs == {"h1", "h2"}
UserIds == {"u1", "u2", "u3"}
CallerIds == UserIds \cup {"u99999"}
CreatorIds == {"u1", "u99999"}
RoomIds == 1..2

None == << >>
Some(v) == <<v>>
IsNull(x) == x = None
Val(x) == x[1]

AmountInputs == {1}
\* payment_reference: left out, or a reference the caller supplies
PaymentReferenceInputs == {None, Some(<<"payment_ref_123">>)}

\* ---------------------------------------------------------------- rows
UserRow(credits) == [gold_credits |-> credits]

\* input.max_participants || null : 0 would be falsy, the schema admits only positive
RoomRow(input, userId) ==
    [room_type |-> input.room_type,
     max_participants |-> input.max_participants,
     gold_cost |-> input.gold_cost,
     owner_id |-> userId,
     is_active |-> TRUE]

RoleRow(isDefault) == [is_default |-> isDefault]

MessageRow(roomId, userId, replyToId) ==
    [room_id |-> roomId, user_id |-> userId, reply_to_id |-> replyToId, is_deleted |-> FALSE]

ParticipantRow(roomId, userId, role) ==
    [room_id |-> roomId, user_id |-> userId, participant_role |-> role]

TransactionRow(userId, amount, type, description, ref) ==
    [user_id |-> userId, amount |-> amount, transaction_type |-> type,
     description |-> description, reference_id |-> ref]

\* ---------------------------------------------------------------- queries
RECURSIVE SumAmounts(_, _)
SumAmounts(rows, userId) ==
    IF rows = << >> THEN 0
    ELSE (IF Head(rows).user_id = userId THEN Head(rows).amount ELSE 0)
         + SumAmounts(Tail(rows), userId)

ParticipantsOf(roomId) ==
    {i \in DOMAIN roomParticipantsTable : roomParticipantsTable[i].room_id = roomId}

ExistingParticipants(roomId, userId) ==
    {i \in ParticipantsOf(roomId) : roomParticipantsTable[i].user_id = userId}

\* ---------------------------------------------------------------- handlers
Idle == [pc |-> "idle", op |-> "none", userId |-> "none", input |-> None,
         room |-> None, user |-> None, tx |-> None, origin |-> None]

NoCall == [op |-> "none", result |-> "none", failed |-> None]

\* what is kept of a call that ran alone and ended in a store failure
Failed(outcome, userId, input, before) ==
    IF outcome = "store failure" /\ before # None
    THEN Some([userId |-> userId, input |-> input, before |-> Val(before)])
    ELSE None

\* the tables from before the failed call, when this call repeats it right after
Origin(p, op, userId, input) ==
    IF /\ \A q \in Procs : proc[q].pc = "idle"
       /\ last.op = op /\ last.failed # None
       /\ Val(last.failed).userId = userId /\ Val(last.failed).input = input
    THEN Some(Val(last.failed).before)
    ELSE None

\* the user row is locked by an open createRoom transaction that has updated it
RowLocked(userId) ==
    \E q \in Procs : proc[q].userId = userId /\ proc[q].tx # None /\ proc[q].tx[1].debit > 0

Others(p) == Procs \ {p}
Alone(p) == \A q \in Others(p) : proc[q].pc = "idle"

\* a call starts: the request goes to the first idle handler
Call(p) ==
    /\ proc[p].pc = "idle"
    /\ p = "h1" \/ proc["h1"].pc # "idle"
    /\ calls < MaxCalls
    /\ calls' = calls + 1

\* the snapshot is taken when a call starts while no other call is in flight
Snapshot(p) ==
    /\ pre' = IF Alone(p) THEN Some(tables) ELSE None
    /\ UNCHANGED last

\* a call ends at its first statement
Reject(p, op, userId, input, outcome) ==
    /\ proc' = proc
    /\ last' = [op |-> op, result |-> outcome,
                failed |-> Failed(outcome, userId, input,
                                  IF Alone(p) THEN Some(tables) ELSE None)]
    /\ pre' = None

\* a call ends at a later statement; the snapshot is dropped with it
Finish(p, op, outcome) ==
    /\ proc' = [proc EXCEPT ![p] = Idle]
    /\ last' = [op |-> op, result |-> outcome,
                failed |-> Failed(outcome, proc[p].userId, proc[p].input, pre)]
    /\ pre' = None

\* a call goes on to its next statement
Goto(p, label) ==
    /\ proc' = [proc EXCEPT ![p].pc = label]
    /\ UNCHANGED <<last, pre>>

Init ==
    /\ start \in 0..MaxStart
    /\ usersTable = [u \in UserIds |-> UserRow(start)]
    /\ roomsTable = << >>
    /\ roomParticipantsTable = << >>
    /\ goldTransactionsTable = << >>
    /\ proc = [p \in Procs |-> Idle]
    /\ calls = 0
    /\ last = NoCall
    /\ pre = None
    /\ rolesTable = <<RoleRow(TRUE)>>
    /\ messagesTable = << >>
    /\ lastSeenAt = {}


\* ---------------------------------------------------------------- joinRoom
\* IsPaid changed to charge a premium room whose cost is 0
IsPaidAnyCost(room) ==
    room.room_type = "premium" /\ ~IsNull(room.gold_cost)

IsPaid(room) ==
    room.room_type = "premium" /\ ~IsNull(room.gold_cost) /\ Val(room.gold_cost) > 0

AfterCapacity(room) == IF IsPaid(room) THEN "j_user" ELSE "j_insert"

\* AfterMembership changed to go to the balance check without counting
AfterMembershipUncounted(room) == AfterCapacity(room)

AfterMembership(room) ==
    IF ~IsNull(room.max_participants) THEN "j_count" ELSE AfterCapacity(room)

\* select the room, check that it exists and is active
joinRoom(p, userId, roomId) ==
    /\ Call(p)
    /\ \/ Reject(p, "joinRoom", userId, Some(roomId), "store failure")
       \/ IF roomId \notin DOMAIN roomsTable
          THEN Reject(p, "joinRoom", userId, Some(roomId), "Room not found")
          ELSE IF ~roomsTable[roomId].is_active
          THEN Reject(p, "joinRoom", userId, Some(roomId), "Room is not active")
          ELSE /\ proc' = [proc EXCEPT ![p] =
                     [Idle EXCEPT !.pc = "j_member", !.op = "joinRoom", !.userId = userId,
                                  !.input = Some(roomId), !.room = Some(roomsTable[roomId]),
                                  !.origin = Origin(p, "joinRoom", userId, Some(roomId))]]
               /\ Snapshot(p)
    /\ UNCHANGED <<tables, start, chat>>

\* joinRoomMember changed to charge a paid room before the membership check
joinRoomMemberCharging(p) ==
    /\ proc[p].pc = "j_member"
    /\ usersTable' =
           IF IsPaid(Val(proc[p].room)) /\ proc[p].userId \in DOMAIN usersTable
           THEN [usersTable EXCEPT ![proc[p].userId].gold_credits =
                     @ - Val(Val(proc[p].room).gold_cost)]
           ELSE usersTable
    /\ IF ExistingParticipants(Val(proc[p].input), proc[p].userId) # {}
       THEN Finish(p, "joinRoom", "User is already a participant in this room")
       ELSE Goto(p, AfterMembership(Val(proc[p].room)))
    /\ UNCHANGED <<roomsTable, roomParticipantsTable, goldTransactionsTable, calls, start, chat>>

\* select the participant rows of (room, user)
joinRoomMember(p) ==
    /\ proc[p].pc = "j_member"
    /\ \/ Finish(p, "joinRoom", "store failure")
       \/ IF ExistingParticipants(Val(proc[p].input), proc[p].userId) # {}
          THEN Finish(p, "joinRoom", "User is already a participant in this room")
          ELSE Goto(p, AfterMembership(Val(proc[p].room)))
    /\ UNCHANGED <<tables, calls, start, chat>>

\* joinRoomCount changed to reject only when the count exceeds max_participants
joinRoomCountStrict(p) ==
    /\ proc[p].pc = "j_count"
    /\ \/ Finish(p, "joinRoom", "store failure")
       \/ IF Cardinality(ParticipantsOf(Val(proc[p].input)))
               > Val(Val(proc[p].room).max_participants)
          THEN Finish(p, "joinRoom", "Room has reached maximum participant limit")
          ELSE Goto(p, AfterCapacity(Val(proc[p].room)))
    /\ UNCHANGED <<tables, calls, start, chat>>

\* count the participant rows of the room
joinRoomCount(p) ==
    /\ proc[p].pc = "j_count"
    /\ \/ Finish(p, "joinRoom", "store failure")
       \/ IF Cardinality(ParticipantsOf(Val(proc[p].input)))
               >= Val(Val(proc[p].room).max_participants)
          THEN Finish(p, "joinRoom", "Room has reached maximum participant limit")
          ELSE Goto(p, AfterCapacity(Val(proc[p].room)))
    /\ UNCHANGED <<tables, calls, start, chat>>

\* select the user, check the balance read against the cost
joinRoomUser(p) ==
    /\ proc[p].pc = "j_user"
    /\ \/ Finish(p, "joinRoom", "store failure")
       \/ IF proc[p].userId \notin DOMAIN usersTable
          THEN Finish(p, "joinRoom", "User not found")
          ELSE IF usersTable[proc[p].userId].gold_credits < Val(Val(proc[p].room).gold_cost)
          THEN Finish(p, "joinRoom", "Insufficient gold credits")
          ELSE /\ proc' = [proc EXCEPT ![p].pc = "j_debit",
                                       ![p].user = Some(usersTable[proc[p].userId])]
               /\ UNCHANGED <<last, pre>>
    /\ UNCHANGED <<tables, calls, start, chat>>

\* joinRoomDebit changed to credit the cost to the owner of the room
joinRoomDebitPayingOwner(p) ==
    /\ proc[p].pc = "j_debit"
    /\ ~RowLocked(proc[p].userId)
    /\ \/ /\ Finish(p, "joinRoom", "store failure")
          /\ UNCHANGED usersTable
       \/ /\ usersTable' = [u \in DOMAIN usersTable |->
                 IF u = proc[p].userId
                 THEN UserRow(Val(proc[p].user).gold_credits - Val(Val(proc[p].room).gold_cost))
                 ELSE IF u = Val(proc[p].room).owner_id
                 THEN UserRow(usersTable[u].gold_credits + Val(Val(proc[p].room).gold_cost))
                 ELSE usersTable[u]]
          /\ Goto(p, "j_ledger")
    /\ UNCHANGED <<roomsTable, roomParticipantsTable, goldTransactionsTable, calls, start, chat>>

\* update the user row with the balance read minus the cost
joinRoomDebit(p) ==
    /\ proc[p].pc = "j_debit"
    /\ ~RowLocked(proc[p].userId)
    /\ \/ /\ Finish(p, "joinRoom", "store failure")
          /\ UNCHANGED usersTable
       \/ /\ usersTable' = [usersTable EXCEPT ![proc[p].userId].gold_credits =
                 Val(proc[p].user).gold_credits - Val(Val(proc[p].room).gold_cost)]
          /\ Goto(p, "j_ledger")
    /\ UNCHANGED <<roomsTable, roomParticipantsTable, goldTransactionsTable, calls, start, chat>>

\* insert the spend row
joinRoomLedger(p) ==
    /\ proc[p].pc = "j_ledger"
    /\ \/ /\ Finish(p, "joinRoom", "store failure")
          /\ UNCHANGED goldTransactionsTable
       \/ /\ goldTransactionsTable' = Append(goldTransactionsTable,
                 TransactionRow(proc[p].userId, -Val(Val(proc[p].room).gold_cost), "spend",
                                "Joined premium room", Some(<<"room_join", Val(proc[p].input)>>)))
          /\ Goto(p, "j_insert")
    /\ UNCHANGED <<usersTable, roomsTable, roomParticipantsTable, calls, start, chat>>

\* joinRoomInsert changed to insert the joining user as admin
joinRoomInsertAdmin(p) ==
    /\ proc[p].pc = "j_insert"
    /\ \/ /\ Finish(p, "joinRoom", "store failure")
          /\ UNCHANGED roomParticipantsTable
       \/ IF proc[p].userId \notin DOMAIN usersTable
          THEN /\ Finish(p, "joinRoom", "foreign key violation")
               /\ UNCHANGED roomParticipantsTable
          ELSE /\ roomParticipantsTable' = Append(roomParticipantsTable,
                      ParticipantRow(Val(proc[p].input), proc[p].userId, "admin"))
               /\ Finish(p, "joinRoom", "ok")
    /\ UNCHANGED <<usersTable, roomsTable, goldTransactionsTable, calls, start, chat>>

\* insert the participant row; user_id references usersTable.id
joinRoomInsert(p) ==
    /\ proc[p].pc = "j_insert"
    /\ \/ /\ Finish(p, "joinRoom", "store failure")
          /\ UNCHANGED roomParticipantsTable
       \/ IF proc[p].userId \notin DOMAIN usersTable
          THEN /\ Finish(p, "joinRoom", "foreign key violation")
               /\ UNCHANGED roomParticipantsTable
          ELSE /\ roomParticipantsTable' = Append(roomParticipantsTable,
                      ParticipantRow(Val(proc[p].input), proc[p].userId, "member"))
               /\ Finish(p, "joinRoom", "ok")
    /\ UNCHANGED <<usersTable, roomsTable, goldTransactionsTable, calls, start, chat>>

\* ---------------------------------------------------------------- purchaseGold
\* input.payment_reference || `purchase_${Date.now()}_${userId}`
ReferenceId(paymentReference, userId) ==
    IF IsNull(paymentReference) THEN Some(<<"purchase", "now", userId>>) ELSE paymentReference

\* select the user, check that it exists
PurchaseGoldInput(amount, paymentReference, userId) ==
    Some([amount |-> amount, reference_id |-> ReferenceId(paymentReference, userId)])

purchaseGold(p, userId, amount, paymentReference) ==
    /\ Call(p)
    /\ LET input == PurchaseGoldInput(amount, paymentReference, userId) IN
       \/ Reject(p, "purchaseGold", userId, input, "store failure")
       \/ IF userId \notin DOMAIN usersTable
          THEN Reject(p, "purchaseGold", userId, input, "User with id not found")
          ELSE /\ proc' = [proc EXCEPT ![p] =
                     [Idle EXCEPT !.pc = "p_ledger", !.op = "purchaseGold", !.userId = userId,
                                  !.input = input, !.user = Some(usersTable[userId]),
                                  !.origin = Origin(p, "purchaseGold", userId, input)]]
               /\ Snapshot(p)
    /\ UNCHANGED <<tables, start, chat>>

\* purchaseGoldLedger changed to skip the insert when the reference is already there
purchaseGoldLedgerOnce(p) ==
    /\ proc[p].pc = "p_ledger"
    /\ \/ /\ Finish(p, "purchaseGold", "store failure")
          /\ UNCHANGED goldTransactionsTable
       \/ /\ goldTransactionsTable' =
                 IF \E i \in DOMAIN goldTransactionsTable :
                        /\ goldTransactionsTable[i].user_id = proc[p].userId
                        /\ goldTransactionsTable[i].reference_id = Val(proc[p].input).reference_id
                 THEN goldTransactionsTable
                 ELSE Append(goldTransactionsTable,
                          TransactionRow(proc[p].userId, Val(proc[p].input).amount, "purchase",
                                         "Gold purchase", Val(proc[p].input).reference_id))
          /\ Goto(p, "p_credit")
    /\ UNCHANGED <<usersTable, roomsTable, roomParticipantsTable, calls, start, chat>>

\* insert the purchase row
purchaseGoldLedger(p) ==
    /\ proc[p].pc = "p_ledger"
    /\ \/ /\ Finish(p, "purchaseGold", "store failure")
          /\ UNCHANGED goldTransactionsTable
       \/ /\ goldTransactionsTable' = Append(goldTransactionsTable,
                 TransactionRow(proc[p].userId, Val(proc[p].input).amount, "purchase",
                                "Gold purchase", Val(proc[p].input).reference_id))
          /\ Goto(p, "p_credit")
    /\ UNCHANGED <<usersTable, roomsTable, roomParticipantsTable, calls, start, chat>>

\* update the user row with the balance read plus the amount
purchaseGoldCredit(p) ==
    /\ proc[p].pc = "p_credit"
    /\ ~RowLocked(proc[p].userId)
    /\ \/ /\ Finish(p, "purchaseGold", "store failure")
          /\ UNCHANGED usersTable
       \/ /\ usersTable' = [usersTable EXCEPT ![proc[p].userId].gold_credits =
                 Val(proc[p].user).gold_credits + Val(proc[p].input).amount]
          /\ Finish(p, "purchaseGold", "ok")
    /\ UNCHANGED <<roomsTable, roomParticipantsTable, goldTransactionsTable, calls, start, chat>>

\* ---------------------------------------------------------------- createRoom
EmptyTx == [debit |-> 0, ledger |-> << >>, room |-> << >>, admin |-> << >>]

\* ChecksCost changed to charge a room of any type that has a cost
ChecksCostAnyType(input) == ~IsNull(input.gold_cost)

\* the premium branch of createRoom: the cost is defined
ChecksCost(input) == input.room_type = "premium" /\ ~IsNull(input.gold_cost)

\* ROLLBACK: the buffered writes are discarded, the row lock is released
Rollback(p, outcome) ==
    /\ Finish(p, "createRoom", outcome)
    /\ UNCHANGED <<tables, calls, start, chat>>

\* createRoom changed to go on without comparing the balance with the cost
createRoomUnchecked(p, userId, input) ==
    /\ Call(p)
    /\ \/ Reject(p, "createRoom", userId, Some(input), "store failure")
       \/ IF userId \notin DOMAIN usersTable
          THEN Reject(p, "createRoom", userId, Some(input), "User not found")
          ELSE /\ proc' = [proc EXCEPT ![p] =
                     [Idle EXCEPT !.pc = IF ChecksCost(input) /\ Val(input.gold_cost) > 0
                                         THEN "c_debit" ELSE "c_room",
                                  !.op = "createRoom", !.userId = userId,
                                  !.input = Some(input), !.user = Some(usersTable[userId]),
                                  !.tx = Some(EmptyTx),
                                  !.origin = Origin(p, "createRoom", userId, Some(input))]]
               /\ Snapshot(p)
    /\ UNCHANGED <<tables, start, chat>>

\* BEGIN, select the user, check existence and the balance read against the cost
createRoom(p, userId, input) ==
    /\ Call(p)
    /\ \/ Reject(p, "createRoom", userId, Some(input), "store failure")
       \/ IF userId \notin DOMAIN usersTable
          THEN Reject(p, "createRoom", userId, Some(input), "User not found")
          ELSE IF ChecksCost(input) /\ usersTable[userId].gold_credits < Val(input.gold_cost)
          THEN Reject(p, "createRoom", userId, Some(input), "Insufficient gold credits")
          ELSE /\ proc' = [proc EXCEPT ![p] =
                     [Idle EXCEPT !.pc = IF ChecksCost(input) /\ Val(input.gold_cost) > 0
                                         THEN "c_debit" ELSE "c_room",
                                  !.op = "createRoom", !.userId = userId,
                                  !.input = Some(input), !.user = Some(usersTable[userId]),
                                  !.tx = Some(EmptyTx),
                                  !.origin = Origin(p, "createRoom", userId, Some(input))]]
               /\ Snapshot(p)
    /\ UNCHANGED <<tables, start, chat>>

\* createRoomDebit changed to update the user row outside the transaction
createRoomDebitAutocommit(p) ==
    /\ proc[p].pc = "c_debit"
    /\ ~RowLocked(proc[p].userId)
    /\ usersTable' = [usersTable EXCEPT ![proc[p].userId].gold_credits =
           @ - Val(Val(proc[p].input).gold_cost)]
    /\ proc' = [proc EXCEPT ![p].pc = "c_ledger"]
    /\ UNCHANGED <<roomsTable, roomParticipantsTable, goldTransactionsTable,
                   calls, start, chat, last, pre>>

\* update gold_credits = gold_credits - cost: takes the row lock, applied at COMMIT
createRoomDebit(p) ==
    /\ proc[p].pc = "c_debit"
    /\ ~RowLocked(proc[p].userId)
    /\ \/ Rollback(p, "store failure")
       \/ /\ proc' = [proc EXCEPT ![p].pc = "c_ledger",
                                  ![p].tx = Some([Val(proc[p].tx) EXCEPT
                                      !.debit = Val(Val(proc[p].input).gold_cost)])]
          /\ UNCHANGED <<tables, calls, start, chat, last, pre>>

\* createRoomLedger changed to insert the cost as a positive amount
createRoomLedgerPositive(p) ==
    /\ proc[p].pc = "c_ledger"
    /\ \/ Rollback(p, "store failure")
       \/ /\ proc' = [proc EXCEPT ![p].pc = "c_room",
                                  ![p].tx = Some([Val(proc[p].tx) EXCEPT !.ledger =
                                      <<TransactionRow(proc[p].userId,
                                            Val(Val(proc[p].input).gold_cost), "spend",
                                            "Room creation", None)>>])]
          /\ UNCHANGED <<tables, calls, start, chat, last, pre>>

\* insert the spend row
createRoomLedger(p) ==
    /\ proc[p].pc = "c_ledger"
    /\ \/ Rollback(p, "store failure")
       \/ /\ proc' = [proc EXCEPT ![p].pc = "c_room",
                                  ![p].tx = Some([Val(proc[p].tx) EXCEPT !.ledger =
                                      <<TransactionRow(proc[p].userId,
                                            -Val(Val(proc[p].input).gold_cost), "spend",
                                            "Room creation", None)>>])]
          /\ UNCHANGED <<tables, calls, start, chat, last, pre>>

\* insert the room row
createRoomRoom(p) ==
    /\ proc[p].pc = "c_room"
    /\ \/ Rollback(p, "store failure")
       \/ /\ proc' = [proc EXCEPT ![p].pc = "c_participant",
                                  ![p].tx = Some([Val(proc[p].tx) EXCEPT !.room =
                                      <<RoomRow(Val(proc[p].input), proc[p].userId)>>])]
          /\ UNCHANGED <<tables, calls, start, chat, last, pre>>

\* createRoomParticipant changed to insert the creator as member
createRoomParticipantMember(p) ==
    /\ proc[p].pc = "c_participant"
    /\ \/ Rollback(p, "store failure")
       \/ /\ proc' = [proc EXCEPT ![p].pc = "c_commit",
                                  ![p].tx = Some([Val(proc[p].tx) EXCEPT !.admin =
                                      <<[user_id |-> proc[p].userId,
                                         participant_role |-> "member"]>>])]
          /\ UNCHANGED <<tables, calls, start, chat, last, pre>>

\* insert the creator as admin of the new room
createRoomParticipant(p) ==
    /\ proc[p].pc = "c_participant"
    /\ \/ Rollback(p, "store failure")
       \/ /\ proc' = [proc EXCEPT ![p].pc = "c_commit",
                                  ![p].tx = Some([Val(proc[p].tx) EXCEPT !.admin =
                                      <<[user_id |-> proc[p].userId,
                                         participant_role |-> "admin"]>>])]
          /\ UNCHANGED <<tables, calls, start, chat, last, pre>>

\* the committed row of the new room's participants
AdminRows(tx, roomId) ==
    [i \in DOMAIN tx.admin |->
        ParticipantRow(roomId, tx.admin[i].user_id, tx.admin[i].participant_role)]

\* Commit changed to replace the ledger by the rows of the transaction
CommitReplacing(p, tx) ==
    /\ usersTable' = [usersTable EXCEPT ![proc[p].userId].gold_credits = @ - tx.debit]
    /\ goldTransactionsTable' = tx.ledger
    /\ roomsTable' = roomsTable \o tx.room
    /\ roomParticipantsTable' =
           roomParticipantsTable \o AdminRows(tx, Len(roomsTable) + 1)

\* COMMIT: the buffered writes become visible together
Commit(p, tx) ==
    /\ usersTable' = [usersTable EXCEPT ![proc[p].userId].gold_credits = @ - tx.debit]
    /\ goldTransactionsTable' = goldTransactionsTable \o tx.ledger
    /\ roomsTable' = roomsTable \o tx.room
    /\ roomParticipantsTable' =
           roomParticipantsTable \o AdminRows(tx, Len(roomsTable) + 1)

createRoomCommit(p) ==
    /\ proc[p].pc = "c_commit"
    /\ \/ Rollback(p, "store failure")
       \/ /\ Commit(p, Val(proc[p].tx))
          /\ Finish(p, "createRoom", "ok")
          /\ UNCHANGED <<calls, start, chat>>

\* ---------------------------------------------------------------- registerUser
RegisterIds == {"u2", "u3"}
WelcomeBonus == 100

\* hash the password, select the default roles
registerUser(p, userId) ==
    /\ Call(p)
    /\ \/ Reject(p, "registerUser", userId, None, "store failure")
       \/ IF \A i \in DOMAIN rolesTable : ~rolesTable[i].is_default
          THEN Reject(p, "registerUser", userId, None, "No default role configured")
          ELSE /\ proc' = [proc EXCEPT ![p] =
                     [Idle EXCEPT !.pc = "r_insert", !.op = "registerUser", !.userId = userId]]
               /\ Snapshot(p)
    /\ UNCHANGED <<tables, start, chat>>

\* registerUserInsert changed to leave gold_credits to the column default, 0
registerUserInsertDefault(p) ==
    /\ proc[p].pc = "r_insert"
    /\ \/ /\ Finish(p, "registerUser", "store failure")
          /\ UNCHANGED usersTable
       \/ IF proc[p].userId \in DOMAIN usersTable
          THEN /\ Finish(p, "registerUser", "unique violation")
               /\ UNCHANGED usersTable
          ELSE /\ usersTable' = [u \in DOMAIN usersTable \cup {proc[p].userId} |->
                     IF u = proc[p].userId THEN UserRow(0) ELSE usersTable[u]]
               /\ Finish(p, "registerUser", "ok")
    /\ UNCHANGED <<roomsTable, roomParticipantsTable, goldTransactionsTable, calls, start, chat>>

\* insert the user row; username and email are unique
registerUserInsert(p) ==
    /\ proc[p].pc = "r_insert"
    /\ \/ /\ Finish(p, "registerUser", "store failure")
          /\ UNCHANGED usersTable
       \/ IF proc[p].userId \in DOMAIN usersTable
          THEN /\ Finish(p, "registerUser", "unique violation")
               /\ UNCHANGED usersTable
          ELSE /\ usersTable' = [u \in DOMAIN usersTable \cup {proc[p].userId} |->
                     IF u = proc[p].userId THEN UserRow(WelcomeBonus) ELSE usersTable[u]]
               /\ Finish(p, "registerUser", "ok")
    /\ UNCHANGED <<roomsTable, roomParticipantsTable, goldTransactionsTable, calls, start, chat>>

\* ---------------------------------------------------------------- sendMessage
ReplyToInputs == {None, Some(1)}

SendMessageInput(roomId, replyToId) == [room_id |-> roomId, reply_to_id |-> replyToId]

AfterParticipation(input) == IF ~IsNull(input.reply_to_id) THEN "s_reply" ELSE "s_insert"

\* select the room by id where is_active
sendMessage(p, userId, input) ==
    /\ Call(p)
    /\ \/ Reject(p, "sendMessage", userId, Some(input), "store failure")
       \/ IF input.room_id \notin DOMAIN roomsTable \/ ~roomsTable[input.room_id].is_active
          THEN Reject(p, "sendMessage", userId, Some(input), "Room not found or inactive")
          ELSE /\ proc' = [proc EXCEPT ![p] =
                     [Idle EXCEPT !.pc = "s_member", !.op = "sendMessage", !.userId = userId,
                                  !.input = Some(input),
                                  !.room = Some(roomsTable[input.room_id])]]
               /\ Snapshot(p)
    /\ UNCHANGED <<tables, start, chat>>

\* sendMessageMember changed to go on without looking at the participant rows
sendMessageMemberUnchecked(p) ==
    /\ proc[p].pc = "s_member"
    /\ \/ Finish(p, "sendMessage", "store failure")
       \/ Goto(p, AfterParticipation(Val(proc[p].input)))
    /\ UNCHANGED <<tables, calls, start, chat>>

\* select the participant row of (room, user)
sendMessageMember(p) ==
    /\ proc[p].pc = "s_member"
    /\ \/ Finish(p, "sendMessage", "store failure")
       \/ IF ExistingParticipants(Val(proc[p].input).room_id, proc[p].userId) = {}
          THEN Finish(p, "sendMessage", "User is not a participant in this room")
          ELSE Goto(p, AfterParticipation(Val(proc[p].input)))
    /\ UNCHANGED <<tables, calls, start, chat>>

\* select the message replied to: same room, not deleted
sendMessageReply(p) ==
    /\ proc[p].pc = "s_reply"
    /\ \/ Finish(p, "sendMessage", "store failure")
       \/ LET id == Val(Val(proc[p].input).reply_to_id) IN
          IF /\ id \in DOMAIN messagesTable
             /\ messagesTable[id].room_id = Val(proc[p].input).room_id
             /\ ~messagesTable[id].is_deleted
          THEN Goto(p, "s_insert")
          ELSE Finish(p, "sendMessage", "Reply target message not found or deleted")
    /\ UNCHANGED <<tables, calls, start, chat>>

\* insert the message row
sendMessageInsert(p) ==
    /\ proc[p].pc = "s_insert"
    /\ \/ /\ Finish(p, "sendMessage", "store failure")
          /\ UNCHANGED messagesTable
       \/ /\ messagesTable' = Append(messagesTable,
                 MessageRow(Val(proc[p].input).room_id, proc[p].userId,
                            Val(proc[p].input).reply_to_id))
          /\ Goto(p, "s_seen")
    /\ UNCHANGED <<tables, calls, start, rolesTable, lastSeenAt>>

\* update last_seen_at of the participant rows of (room, user)
sendMessageSeen(p) ==
    /\ proc[p].pc = "s_seen"
    /\ \/ /\ Finish(p, "sendMessage", "store failure")
          /\ UNCHANGED lastSeenAt
       \/ /\ lastSeenAt' = lastSeenAt \cup {<<Val(proc[p].input).room_id, proc[p].userId>>}
          /\ Finish(p, "sendMessage", "ok")
    /\ UNCHANGED <<tables, calls, start, rolesTable, messagesTable>>

\* ---------------------------------------------------------------- administration
\* a room is deactivated by a direct update of its row
deactivateRoom(roomId) ==
    /\ roomId \in DOMAIN roomsTable
    /\ roomsTable[roomId].is_active
    /\ roomsTable' = [roomsTable EXCEPT ![roomId].is_active = FALSE]
    /\ pre' = None
    /\ last' = [last EXCEPT !.failed = None]
    /\ UNCHANGED <<usersTable, roomParticipantsTable, goldTransactionsTable, proc, calls, start, chat>>

\* ---------------------------------------------------------------- specification
CreateRoomInput(type, max, cost) ==
    [room_type |-> type, max_participants |-> max, gold_cost |-> cost]

\* the inputs tried: plain, capped, non-premium with a cost, free premium, paid premium
CreateRoomInputs ==
    {CreateRoomInput("public", None, None),
     CreateRoomInput("public", Some(2), None),
     CreateRoomInput("private", Some(1), Some(1)),
     CreateRoomInput("premium", None, None),
     CreateRoomInput("premium", None, Some(0)),
     CreateRoomInput("premium", None, Some(1)),
     CreateRoomInput("premium", Some(2), Some(1))}

Next ==
    \/ \E p \in Procs, u \in CallerIds, r \in RoomIds : joinRoom(p, u, r)
    \/ \E p \in Procs : joinRoomMember(p)
    \/ \E p \in Procs : joinRoomCount(p)
    \/ \E p \in Procs : joinRoomUser(p)
    \/ \E p \in Procs : joinRoomDebit(p)
    \/ \E p \in Procs : joinRoomLedger(p)
    \/ \E p \in Procs : joinRoomInsert(p)
    \/ \E p \in Procs, u \in CallerIds, a \in AmountInputs, r \in PaymentReferenceInputs :
           purchaseGold(p, u, a, r)
    \/ \E p \in Procs : purchaseGoldLedger(p)
    \/ \E p \in Procs : purchaseGoldCredit(p)
    \/ \E p \in Procs, u \in CreatorIds, i \in CreateRoomInputs : createRoom(p, u, i)
    \/ \E p \in Procs : createRoomDebit(p)
    \/ \E p \in Procs : createRoomLedger(p)
    \/ \E p \in Procs : createRoomRoom(p)
    \/ \E p \in Procs : createRoomParticipant(p)
    \/ \E p \in Procs : createRoomCommit(p)
    \/ \E r \in RoomIds : deactivateRoom(r)

Spec == Init /\ [][Next]_vars

\* ---------------------------------------------------------------- registration and chat
\* the rooms tried with messages: an open room and a paid premium room
ChatRoomInputs ==
    {CreateRoomInput("public", None, None),
     CreateRoomInput("premium", None, Some(1))}

\* two users have registered; the default role is there or has been deleted
ChatInit ==
    /\ start = WelcomeBonus
    /\ usersTable = [u \in {"u1", "u2"} |-> UserRow(WelcomeBonus)]
    /\ roomsTable = << >>
    /\ roomParticipantsTable = << >>
    /\ goldTransactionsTable = << >>
    /\ proc = [p \in Procs |-> Idle]
    /\ calls = 0
    /\ last = NoCall
    /\ pre = None
    /\ rolesTable \in {<< >>, <<RoleRow(TRUE)>>}
    /\ messagesTable = << >>
    /\ lastSeenAt = {}

ChatNext ==
    \/ \E p \in Procs, u \in RegisterIds : registerUser(p, u)
    \/ \E p \in Procs : registerUserInsert(p)
    \/ \E p \in Procs, u \in CreatorIds, i \in ChatRoomInputs : createRoom(p, u, i)
    \/ \E p \in Procs : createRoomDebit(p)
    \/ \E p \in Procs : createRoomLedger(p)
    \/ \E p \in Procs : createRoomRoom(p)
    \/ \E p \in Procs : createRoomParticipant(p)
    \/ \E p \in Procs : createRoomCommit(p)
    \/ \E p \in Procs, u \in CallerIds, r \in RoomIds : joinRoom(p, u, r)
    \/ \E p \in Procs : joinRoomMember(p)
    \/ \E p \in Procs : joinRoomUser(p)
    \/ \E p \in Procs : joinRoomDebit(p)
    \/ \E p \in Procs : joinRoomLedger(p)
    \/ \E p \in Procs : joinRoomInsert(p)
    \/ \E p \in Procs, u \in CallerIds, r \in RoomIds, t \in ReplyToInputs :
           sendMessage(p, u, SendMessageInput(r, t))
    \/ \E p \in Procs : sendMessageMember(p)
    \/ \E p \in Procs : sendMessageReply(p)
    \/ \E p \in Procs : sendMessageInsert(p)
    \/ \E p \in Procs : sendMessageSeen(p)
    \/ \E r \in RoomIds : deactivateRoom(r)

ChatSpec == ChatInit /\ [][ChatNext]_vars

\* ---------------------------------------------------------------- effects of one call
\* What one successful call, running alone, does to the tables T =
\* <<users, rooms, participants, ledger>>.
CreateRoomEffect(T, userId, input) ==
    LET paid == ChecksCost(input) /\ Val(input.gold_cost) > 0 IN
    << IF paid THEN [T[1] EXCEPT ![userId].gold_credits = @ - Val(input.gold_cost)] ELSE T[1],
       Append(T[2], RoomRow(input, userId)),
       Append(T[3], ParticipantRow(Len(T[2]) + 1, userId, "admin")),
       IF paid
       THEN Append(T[4], TransactionRow(userId, -Val(input.gold_cost), "spend",
                                        "Room creation", None))
       ELSE T[4] >>

JoinRoomEffect(T, userId, roomId) ==
    LET room == T[2][roomId] IN
    << IF IsPaid(room) THEN [T[1] EXCEPT ![userId].gold_credits = @ - Val(room.gold_cost)]
       ELSE T[1],
       T[2],
       Append(T[3], ParticipantRow(roomId, userId, "member")),
       IF IsPaid(room)
       THEN Append(T[4], TransactionRow(userId, -Val(room.gold_cost), "spend",
                                        "Joined premium room", Some(<<"room_join", roomId>>)))
       ELSE T[4] >>

PurchaseGoldEffect(T, userId, input) ==
    << [T[1] EXCEPT ![userId].gold_credits = @ + input.amount],
       T[2],
       T[3],
       Append(T[4], TransactionRow(userId, input.amount, "purchase", "Gold purchase",
                                   input.reference_id)) >>

CallEffect(T, op, userId, input) ==
    CASE op = "createRoom" -> CreateRoomEffect(T, userId, Val(input))
      [] op = "joinRoom" -> JoinRoomEffect(T, userId, Val(input))
      [] op = "purchaseGold" -> PurchaseGoldEffect(T, userId, Val(input))

\* ---------------------------------------------------------------- steps that end a call
Quiescent == \A p \in Procs : proc[p].pc = "idle"

EndsAtOnce == calls' = calls + 1 /\ proc' = proc
EndsLater(p) == proc[p].pc # "idle" /\ proc'[p].pc = "idle"
Ends(op) == last'.op = op /\ (EndsAtOnce \/ \E p \in Procs : EndsLater(p))

\* the step is the first statement of a call of op, taken by handler p
Starts(p, op) ==
    /\ proc[p].pc = "idle"
    /\ calls' = calls + 1
    /\ IF proc' = proc THEN last'.op = op ELSE proc'[p].op = op

\* the tables from before the call that ends in this step, when it ran alone
Before == IF EndsAtOnce THEN (IF Quiescent THEN Some(tables) ELSE None) ELSE pre

Credits(userId) == usersTable[userId].gold_credits

\* ---------------------------------------------------------------- claims
\* C1: whenever no call is in flight, every user's gold_credits equals the balance
\* the user was set up with plus the sum of the amounts of the user's ledger rows.
C1_BalanceEqualsLedgerSum ==
    Quiescent =>
        \A u \in DOMAIN usersTable :
            Credits(u) = start + SumAmounts(goldTransactionsTable, u)

\* C2: gold_credits of every user is >= 0 in every reachable state.
C2_CreditsNeverNegative ==
    \A u \in DOMAIN usersTable : Credits(u) >= 0

\* C3: a room with max_participants = N never has more than N participant rows.
C3_CapacityNeverExceeded ==
    \A r \in DOMAIN roomsTable :
        ~IsNull(roomsTable[r].max_participants) =>
            Cardinality(ParticipantsOf(r)) <= Val(roomsTable[r].max_participants)

\* C4: every (room, user) pair has at most one participant row.
C4_OneRowPerRoomAndUser ==
    \A r \in DOMAIN roomsTable : \A u \in UserIds :
        Cardinality(ExistingParticipants(r, u)) <= 1

\* C5: a createRoom, joinRoom or purchaseGold call that ran alone and ended in an
\* error leaves the four tables exactly as they were before the call.
C5_FailedCallChangesNothing ==
    [][ \A op \in {"createRoom", "joinRoom", "purchaseGold"} :
            (Ends(op) /\ last'.result # "ok" /\ Before # None) => tables' = Val(Before) ]_vars

\* C6: every step of a createRoom call leaves the four tables unchanged, except the
\* step that ends the call successfully, which applies the debit, the spend row, the
\* room row and the admin row together; a call that ends in an error changes nothing.
C6_CreateRoomAllOrNothing ==
    [][ \A p \in Procs :
            ((proc[p].op = "createRoom" \/ proc'[p].op = "createRoom") /\ proc'[p] # proc[p]) =>
                IF EndsLater(p) /\ last'.result = "ok"
                THEN tables' = CreateRoomEffect(tables, proc[p].userId, Val(proc[p].input))
                ELSE tables' = tables ]_vars

\* C6 witness: a createRoom of a paid premium room has committed.
C6_Witness ==
    /\ last.op = "createRoom" /\ last.result = "ok"
    /\ \E r \in DOMAIN roomsTable :
          /\ IsPaid(roomsTable[r])
          /\ \E i \in DOMAIN roomParticipantsTable :
                roomParticipantsTable[i] = ParticipantRow(r, roomsTable[r].owner_id, "admin")
          /\ \E i \in DOMAIN goldTransactionsTable :
                /\ goldTransactionsTable[i].description = "Room creation"
                /\ goldTransactionsTable[i].user_id = roomsTable[r].owner_id

\* C7: a joinRoom into a paid premium room that ran alone ends with the debit, the
\* spend row and the participant row all applied, or with none of them.
C7_PaidJoinAllOrNothing ==
    [][ \A p \in Procs :
            (proc[p].op = "joinRoom" /\ EndsLater(p) /\ pre # None
                /\ IsPaid(Val(proc[p].room))) =>
                \/ tables' = Val(pre)
                \/ tables' = JoinRoomEffect(Val(pre), proc[p].userId, Val(proc[p].input)) ]_vars

\* C8: a purchaseGold that ran alone and ended in an error has persisted neither
\* the purchase row nor a balance change.
C8_FailedPurchaseLeavesNoRow ==
    [][ \A p \in Procs :
            (proc[p].op = "purchaseGold" /\ EndsLater(p) /\ pre # None
                /\ last'.result # "ok") =>
                /\ goldTransactionsTable' = Val(pre)[4]
                /\ usersTable' = Val(pre)[1] ]_vars

\* C9: a call that ended in a store failure and is repeated right after with the same
\* arguments, both running alone, leaves on success the tables that one successful
\* call would have left.
C9_RetryEqualsSingleCall ==
    [][ \A p \in Procs :
            (EndsLater(p) /\ last'.result = "ok" /\ proc[p].origin # None /\ pre # None) =>
                tables' = CallEffect(Val(proc[p].origin), proc[p].op, proc[p].userId,
                                     proc[p].input) ]_vars

JoinRejections ==
    {"Room not found", "Room is not active", "User is already a participant in this room",
     "Room has reached maximum participant limit"}

\* C10: the step in which a joinRoom is rejected with NotFound, RoomInactive,
\* AlreadyMember or RoomFull writes nothing, and when the call ran alone the balances
\* and the ledger are those from before the call.
C10_RejectedJoinNeverCharges ==
    [][ (Ends("joinRoom") /\ last'.result \in JoinRejections) =>
            /\ tables' = tables
            /\ Before # None =>
                  /\ usersTable' = Val(Before)[1]
                  /\ goldTransactionsTable' = Val(Before)[4] ]_vars

\* C10 witness: a join into a paid premium room was rejected because the caller is
\* already a member or the room is full.
C10_Witness ==
    /\ last.op = "joinRoom"
    /\ last.result \in {"User is already a participant in this room",
                        "Room has reached maximum participant limit"}
    /\ \E r \in DOMAIN roomsTable :
          /\ IsPaid(roomsTable[r])
          /\ ~IsNull(roomsTable[r].max_participants)
          /\ Cardinality(ParticipantsOf(r)) >= Val(roomsTable[r].max_participants)

\* C11: the step that ends a successful createRoom of a premium room with cost c > 0
\* lowers the creator's balance by c and no other balance, appends one spend row of
\* amount -c for the creator, one room row that is active with gold_cost c, and one
\* participant row, the creator as admin, which is the only row of the new room;
\* when the call ran alone the balance b from before the call was >= c and is now b - c.
C11_PaidCreateRoomEffects ==
    [][ \A p \in Procs :
            (/\ proc[p].op = "createRoom" /\ EndsLater(p) /\ last'.result = "ok"
             /\ Val(proc[p].input).room_type = "premium"
             /\ ~IsNull(Val(proc[p].input).gold_cost)
             /\ Val(Val(proc[p].input).gold_cost) > 0) =>
                LET u == proc[p].userId
                    c == Val(Val(proc[p].input).gold_cost)
                    r == Len(roomsTable) + 1
                IN  /\ usersTable' = [usersTable EXCEPT ![u].gold_credits = @ - c]
                    /\ goldTransactionsTable' = Append(goldTransactionsTable,
                           [user_id |-> u, amount |-> -c, transaction_type |-> "spend",
                            description |-> "Room creation", reference_id |-> None])
                    /\ Len(roomsTable') = r
                    /\ SubSeq(roomsTable', 1, Len(roomsTable)) = roomsTable
                    /\ roomsTable'[r].is_active
                    /\ roomsTable'[r].gold_cost = Some(c)
                    /\ roomsTable'[r].owner_id = u
                    /\ roomParticipantsTable' = Append(roomParticipantsTable,
                           [room_id |-> r, user_id |-> u, participant_role |-> "admin"])
                    /\ Cardinality({i \in DOMAIN roomParticipantsTable' :
                                       roomParticipantsTable'[i].room_id = r}) = 1
                    /\ pre # None =>
                          /\ Val(pre)[1][u].gold_credits >= c
                          /\ usersTable'[u].gold_credits = Val(pre)[1][u].gold_credits - c
                          /\ Len(goldTransactionsTable') = Len(Val(pre)[4]) + 1 ]_vars

\* C11 witness: a createRoom of a paid premium room by a user whose balance covered
\* the cost has ended successfully, with the debit, the spend row and the admin row.
C11_Witness ==
    /\ last.op = "createRoom" /\ last.result = "ok" /\ Quiescent
    /\ \E r \in DOMAIN roomsTable :
          LET room == roomsTable[r] IN
          /\ room.room_type = "premium" /\ room.gold_cost = Some(1) /\ room.is_active
          /\ Credits(room.owner_id) = start - 1
          /\ goldTransactionsTable =
                 <<TransactionRow(room.owner_id, -1, "spend", "Room creation", None)>>
          /\ roomParticipantsTable = <<ParticipantRow(r, room.owner_id, "admin")>>

\* C12: a createRoom of a premium room with a cost, and a joinRoom that reaches the
\* balance check of a paid premium room, end with InsufficientFunds (or a store
\* failure) whenever the balance read is below the cost; the step that reports
\* InsufficientFunds writes nothing, and when the call ran alone the balances, the
\* ledger, the rooms and the participants are those from before the call.
C12_InsufficientFundsNoPartialCharge ==
    [][ /\ \A p \in {q \in Procs : Starts(q, "createRoom")} :
           \A u \in DOMAIN usersTable, i \in CreateRoomInputs :
              (/\ createRoom(p, u, i)
               /\ i.room_type = "premium" /\ ~IsNull(i.gold_cost)
               /\ Credits(u) < Val(i.gold_cost)) =>
                  /\ EndsAtOnce
                  /\ last'.op = "createRoom"
                  /\ last'.result \in {"Insufficient gold credits", "store failure"}
        /\ \A p \in Procs :
              (/\ joinRoomUser(p)
               /\ proc[p].userId \in DOMAIN usersTable
               /\ Credits(proc[p].userId) < Val(Val(proc[p].room).gold_cost)) =>
                  /\ EndsLater(p)
                  /\ last'.op = "joinRoom"
                  /\ last'.result \in {"Insufficient gold credits", "store failure"}
        /\ \A op \in {"createRoom", "joinRoom"} :
              (Ends(op) /\ last'.result = "Insufficient gold credits") =>
                  /\ tables' = tables
                  /\ Before # None => tables' = Val(Before) ]_vars

\* C12 witness: a joinRoom into a paid premium room by a user whose balance is below
\* the cost has ended with InsufficientFunds.
C12_Witness ==
    /\ last.op = "joinRoom" /\ last.result = "Insufficient gold credits"
    /\ \E r \in DOMAIN roomsTable, u \in DOMAIN usersTable :
          /\ roomsTable[r].room_type = "premium" /\ ~IsNull(roomsTable[r].gold_cost)
          /\ Credits(u) < Val(roomsTable[r].gold_cost)
          /\ ExistingParticipants(r, u) = {}
          /\ SumAmounts(goldTransactionsTable, u) = 0

\* C13: a createRoom of a public or private room by an existing user never ends with
\* InsufficientFunds, whatever gold_cost is supplied and whatever the balance is: its
\* first statement goes on to the room insert unless the store fails, no step of the
\* call changes a balance or the ledger, and when the call ran alone and succeeded
\* the balances and the ledger are those from before the call.
C13_NonPremiumCreateNeverCharges ==
    [][ /\ \A p \in {q \in Procs : Starts(q, "createRoom")} :
           \A u \in DOMAIN usersTable, i \in CreateRoomInputs :
              (/\ createRoom(p, u, i)
               /\ i.room_type \in {"public", "private"}) =>
                  \/ proc'[p].pc = "c_room"
                  \/ EndsAtOnce /\ last'.result = "store failure"
        /\ \A p \in Procs :
              (/\ proc[p].op = "createRoom" /\ proc'[p] # proc[p]
               /\ Val(proc[p].input).room_type \in {"public", "private"}) =>
                  /\ usersTable' = usersTable
                  /\ goldTransactionsTable' = goldTransactionsTable
                  /\ (EndsLater(p) /\ last'.result = "ok" /\ pre # None) =>
                        /\ usersTable' = Val(pre)[1]
                        /\ goldTransactionsTable' = Val(pre)[4] ]_vars

\* C13 witness: a private room with a cost above its creator's balance has been
\* created, and the creator has no ledger row.
C13_Witness ==
    /\ last.op = "createRoom" /\ last.result = "ok"
    /\ \E r \in DOMAIN roomsTable :
          LET room == roomsTable[r] IN
          /\ room.room_type \in {"public", "private"}
          /\ ~IsNull(room.gold_cost)
          /\ Credits(room.owner_id) < Val(room.gold_cost)
          /\ Credits(room.owner_id) = start
          /\ \A i \in DOMAIN goldTransactionsTable :
                goldTransactionsTable[i].user_id # room.owner_id

\* C14: every room whose room_type is public or private has a stored gold_cost that
\* is null or zero.
C14_NonPremiumStoresNoCost ==
    \A r \in DOMAIN roomsTable :
        roomsTable[r].room_type \in {"public", "private"} =>
            \/ IsNull(roomsTable[r].gold_cost)
            \/ Val(roomsTable[r].gold_cost) = 0

\* C15: a premium room whose gold_cost is 0 or absent is free. A createRoom of such a
\* room by an existing user with a balance >= 0 goes on to the room insert unless the
\* store fails; a joinRoom into such a room never looks the user up and never ends
\* with InsufficientFunds; no step of either call changes a balance or the ledger,
\* and when the call ran alone and succeeded the balances and the ledger are those
\* from before the call.
C15_FreePremiumNeverCharges ==
    [][ /\ \A p \in {q \in Procs : Starts(q, "createRoom")} :
           \A u \in DOMAIN usersTable, i \in CreateRoomInputs :
              (/\ createRoom(p, u, i)
               /\ i.room_type = "premium"
               /\ (IsNull(i.gold_cost) \/ Val(i.gold_cost) = 0)
               /\ Credits(u) >= 0) =>
                  \/ proc'[p].pc = "c_room"
                  \/ EndsAtOnce /\ last'.result = "store failure"
        /\ \A p \in Procs :
              LET free == IF proc[p].op = "createRoom" THEN Val(proc[p].input)
                          ELSE Val(proc[p].room)
              IN  (/\ proc[p].op \in {"createRoom", "joinRoom"} /\ proc'[p] # proc[p]
                   /\ free.room_type = "premium"
                   /\ (IsNull(free.gold_cost) \/ Val(free.gold_cost) = 0)) =>
                      /\ usersTable' = usersTable
                      /\ goldTransactionsTable' = goldTransactionsTable
                      /\ proc'[p].pc \notin {"j_user", "j_debit", "j_ledger", "c_debit", "c_ledger"}
                      /\ EndsLater(p) =>
                            last'.result \notin {"Insufficient gold credits", "User not found"}
                      /\ (EndsLater(p) /\ last'.result = "ok" /\ pre # None) =>
                            /\ usersTable' = Val(pre)[1]
                            /\ goldTransactionsTable' = Val(pre)[4] ]_vars

\* C15 witness: a user with balance 0 and no ledger row has joined a premium room
\* whose gold_cost is 0 or absent.
C15_Witness ==
    /\ last.op = "joinRoom" /\ last.result = "ok"
    /\ \E r \in DOMAIN roomsTable, i \in DOMAIN roomParticipantsTable :
          LET row == roomParticipantsTable[i] IN
          /\ roomsTable[r].room_type = "premium"
          /\ (IsNull(roomsTable[r].gold_cost) \/ Val(roomsTable[r].gold_cost) = 0)
          /\ row.room_id = r /\ row.participant_role = "member"
          /\ Credits(row.user_id) = 0
          /\ SumAmounts(goldTransactionsTable, row.user_id) = 0
          /\ Credits(roomsTable[r].owner_id) = start

\* C16: the step that ends a successful joinRoom into a premium room with cost c > 0
\* inserts exactly one participant row (room, user) with role member; when the call
\* ran alone, the balance b from before the call was >= c and is now exactly b - c,
\* no other balance has changed, the ledger has gained exactly one row, for that
\* user with amount -c and type spend, and the participants have gained that one row.
C16_PaidJoinRoomEffects ==
    [][ \A p \in Procs :
            (/\ proc[p].op = "joinRoom" /\ EndsLater(p) /\ last'.result = "ok"
             /\ Val(proc[p].room).room_type = "premium"
             /\ ~IsNull(Val(proc[p].room).gold_cost)
             /\ Val(Val(proc[p].room).gold_cost) > 0) =>
                LET u == proc[p].userId
                    r == Val(proc[p].input)
                    c == Val(Val(proc[p].room).gold_cost)
                    member == [room_id |-> r, user_id |-> u, participant_role |-> "member"]
                IN  /\ roomParticipantsTable' = Append(roomParticipantsTable, member)
                    /\ pre # None =>
                          /\ Val(pre)[1][u].gold_credits >= c
                          /\ usersTable' = [Val(pre)[1] EXCEPT ![u].gold_credits = @ - c]
                          /\ goldTransactionsTable' = Append(Val(pre)[4],
                                 [user_id |-> u, amount |-> -c, transaction_type |-> "spend",
                                  description |-> "Joined premium room",
                                  reference_id |-> Some(<<"room_join", r>>)])
                          /\ roomParticipantsTable' = Append(Val(pre)[3], member)
                          /\ roomsTable' = Val(pre)[2] ]_vars

\* C16 witness: a user has joined a paid premium room as member, was debited the
\* cost and has the one spend row of the join.
C16_Witness ==
    /\ last.op = "joinRoom" /\ last.result = "ok" /\ Quiescent
    /\ \E r \in DOMAIN roomsTable, u \in DOMAIN usersTable :
          /\ roomsTable[r].room_type = "premium" /\ roomsTable[r].gold_cost = Some(1)
          /\ u # roomsTable[r].owner_id
          /\ ExistingParticipants(r, u) # {}
          /\ Credits(u) = start - 1
          /\ \E i \in DOMAIN goldTransactionsTable :
                goldTransactionsTable[i] =
                    TransactionRow(u, -1, "spend", "Joined premium room", Some(<<"room_join", r>>))

\* C17: a joinRoom ends with RoomFull only at the participant count, which is run
\* only for a non-member of a room whose max_participants is set, and it ends so
\* exactly when the count is >= max_participants (unless the store fails); a
\* non-member of a room with max_participants set always gets to the count, and a
\* non-member of a room without max_participants never does.
C17_RoomFullIffCountReachesMax ==
    [][ /\ EndsAtOnce => last'.result # "Room has reached maximum participant limit"
        /\ \A p \in Procs :
            LET r == Val(proc[p].input)
                room == Val(proc[p].room)
                count == Cardinality({i \in DOMAIN roomParticipantsTable :
                                         roomParticipantsTable[i].room_id = r})
                full == EndsLater(p) /\ last'.op = "joinRoom"
                          /\ last'.result = "Room has reached maximum participant limit"
            IN  (proc[p].op = "joinRoom" /\ proc'[p] # proc[p]) =>
                   /\ full => /\ proc[p].pc = "j_count"
                              /\ ~IsNull(room.max_participants)
                              /\ count >= Val(room.max_participants)
                   /\ (proc[p].pc = "j_count" /\ count >= Val(room.max_participants)) =>
                          EndsLater(p) /\ (full \/ last'.result = "store failure")
                   /\ (proc[p].pc = "j_member" /\ ~EndsLater(p)) =>
                          (proc'[p].pc = "j_count" <=> ~IsNull(room.max_participants)) ]_vars

\* C17 witness: a join into a room that holds max_participants rows has ended with
\* RoomFull.
C17_Witness ==
    /\ last.op = "joinRoom" /\ last.result = "Room has reached maximum participant limit"
    /\ \E r \in DOMAIN roomsTable :
          /\ ~IsNull(roomsTable[r].max_participants)
          /\ Cardinality(ParticipantsOf(r)) = Val(roomsTable[r].max_participants)

\* ---------------------------------------------------------------- order of the checks
\* the outcome of joinRoom's checks, in the order of its statements, on the tables
\* T = <<users, rooms, participants, ledger>>
JoinRoomOutcome(T, userId, roomId) ==
    LET room == T[2][roomId]
        rows == {i \in DOMAIN T[3] : T[3][i].room_id = roomId}
        paid == room.room_type = "premium" /\ ~IsNull(room.gold_cost)
                    /\ Val(room.gold_cost) > 0
    IN  IF roomId \notin DOMAIN T[2] THEN "Room not found"
        ELSE IF ~room.is_active THEN "Room is not active"
        ELSE IF \E i \in rows : T[3][i].user_id = userId
        THEN "User is already a participant in this room"
        ELSE IF ~IsNull(room.max_participants) /\ Cardinality(rows) >= Val(room.max_participants)
        THEN "Room has reached maximum participant limit"
        ELSE IF paid /\ userId \notin DOMAIN T[1] THEN "User not found"
        ELSE IF paid /\ T[1][userId].gold_credits < Val(room.gold_cost)
        THEN "Insufficient gold credits"
        ELSE "ok"

\* the position of a joinRoom statement in the handler
Rank(pc) ==
    CASE pc = "j_member" -> 1 [] pc = "j_count" -> 2 [] pc = "j_user" -> 3
      [] pc = "j_debit" -> 4 [] pc = "j_ledger" -> 5 [] pc = "j_insert" -> 6
      [] OTHER -> 0

\* C18: joinRoom reports the first failing precondition in the order NotFound(room),
\* RoomInactive, AlreadyMember, RoomFull, NotFound(user), InsufficientFunds. A call
\* rejected at its first statement reports what the order gives on the tables of
\* that moment; a call that ran alone ends, unless the store fails or refuses the
\* insert, with what the order gives on the tables from before the call, and with
\* success only when no precondition fails; under any interleaving each rejection
\* comes from its own statement and the statements run in that order.
C18_FirstFailingPrecondition ==
    [][ /\ \A p \in {q \in Procs : Starts(q, "joinRoom")} :
           \A u \in CallerIds, r \in RoomIds :
              (joinRoom(p, u, r) /\ EndsAtOnce) =>
                  \/ last'.result = "store failure"
                  \/ last'.result = JoinRoomOutcome(tables, u, r)
        /\ \A p \in Procs :
              (proc[p].op = "joinRoom" /\ proc'[p] # proc[p]) =>
                  /\ ~EndsLater(p) => Rank(proc'[p].pc) > Rank(proc[p].pc)
                  /\ EndsLater(p) =>
                        /\ last'.result = "User is already a participant in this room"
                              => proc[p].pc = "j_member"
                        /\ last'.result = "Room has reached maximum participant limit"
                              => proc[p].pc = "j_count"
                        /\ last'.result \in {"User not found", "Insufficient gold credits"}
                              => proc[p].pc = "j_user"
                        /\ last'.result = "ok" => proc[p].pc = "j_insert"
                        /\ pre # None =>
                              \/ last'.result = "store failure"
                              \/ /\ last'.result = "foreign key violation"
                                 /\ proc[p].userId \notin DOMAIN usersTable
                              \/ last'.result = JoinRoomOutcome(Val(pre), proc[p].userId,
                                                                Val(proc[p].input)) ]_vars

\* C18 witness: a member of the only room, which is full, has called joinRoom and
\* got AlreadyMember.
C18_Witness ==
    /\ last.op = "joinRoom" /\ last.result = "User is already a participant in this room"
    /\ Len(roomsTable) = 1
    /\ ~IsNull(roomsTable[1].max_participants)
    /\ Cardinality(ParticipantsOf(1)) >= Val(roomsTable[1].max_participants)

\* C19: the step that ends a successful purchaseGold(amount) raises the user's
\* balance by exactly amount, and the call has appended exactly one purchase row of
\* that amount, whether or not other calls are in flight.
C19_EveryPurchaseTakesEffect ==
    [][ \A p \in Procs :
            (proc[p].op = "purchaseGold" /\ EndsLater(p) /\ last'.result = "ok") =>
                LET u == proc[p].userId
                    amount == Val(proc[p].input).amount
                IN  /\ usersTable'[u].gold_credits = usersTable[u].gold_credits + amount
                    /\ \E i \in DOMAIN goldTransactionsTable' :
                          /\ goldTransactionsTable'[i].user_id = u
                          /\ goldTransactionsTable'[i].amount = amount
                          /\ goldTransactionsTable'[i].transaction_type = "purchase" ]_vars

\* C20: purchaseGold never deduplicates on the reference. The insert of a purchase
\* appends its row whether or not the ledger already holds an equal row, and a
\* successful call that ran alone while the ledger already held a row of the same
\* user, reference and amount has appended one more such row and raised the balance
\* from before the call by the amount once more.
C20_NoDeduplicationOnReference ==
    [][ \A p \in Procs :
            LET u == proc[p].userId
                input == Val(proc[p].input)
                row == [user_id |-> u, amount |-> input.amount,
                        transaction_type |-> "purchase", description |-> "Gold purchase",
                        reference_id |-> input.reference_id]
                Repeats(ledger) == \E i \in DOMAIN ledger : ledger[i] = row
            IN  (proc[p].op = "purchaseGold" /\ proc'[p] # proc[p]) =>
                   /\ (proc[p].pc = "p_ledger" /\ ~EndsLater(p)) =>
                          goldTransactionsTable' = Append(goldTransactionsTable, row)
                   /\ (/\ EndsLater(p) /\ last'.result = "ok" /\ pre # None
                       /\ Repeats(Val(pre)[4])) =>
                          /\ goldTransactionsTable' = Append(Val(pre)[4], row)
                          /\ usersTable' = [Val(pre)[1] EXCEPT ![u].gold_credits =
                                               @ + input.amount] ]_vars

\* C20 witness: two purchases of the same user with the same supplied reference and
\* amount have succeeded one after the other; the ledger holds both rows and the
\* balance was credited twice.
C20_Witness ==
    /\ last.op = "purchaseGold" /\ last.result = "ok" /\ Quiescent
    /\ \E u \in DOMAIN usersTable :
          LET row == TransactionRow(u, 1, "purchase", "Gold purchase",
                                    Some(<<"payment_ref_123">>))
          IN  /\ goldTransactionsTable = <<row, row>>
              /\ Credits(u) = start + 2

\* C21: the ledger is append-only: across every step every row that was in the
\* ledger is still there, at its place and with all its fields, so the ledger of
\* before is a prefix of the ledger of after.
C21_LedgerAppendOnly ==
    [][ /\ Len(goldTransactionsTable') >= Len(goldTransactionsTable)
        /\ \A i \in DOMAIN goldTransactionsTable :
              goldTransactionsTable'[i] = goldTransactionsTable[i] ]_vars

\* C21 witness: the ledger holds a purchase row followed by the spend row of a later
\* call.
C21_Witness ==
    /\ Len(goldTransactionsTable) >= 2
    /\ goldTransactionsTable[1].transaction_type = "purchase"
    /\ goldTransactionsTable[2].transaction_type = "spend"
    /\ Quiescent

\* C22: whenever no call is in flight, every spend row of the ledger has amount -c
\* where c > 0 is the gold_cost of a premium room that the row's user owns or has a
\* participant row in, and no user who owns or is in public and private rooms only
\* has a spend row.
C22_SpendOnlyForPaidRoomsHeld ==
    Quiescent =>
        \A i \in DOMAIN goldTransactionsTable :
            LET row == goldTransactionsTable[i] IN
            row.transaction_type = "spend" =>
                \E r \in DOMAIN roomsTable :
                    /\ roomsTable[r].room_type = "premium"
                    /\ ~IsNull(roomsTable[r].gold_cost)
                    /\ Val(roomsTable[r].gold_cost) > 0
                    /\ row.amount = -Val(roomsTable[r].gold_cost)
                    /\ \/ roomsTable[r].owner_id = row.user_id
                       \/ \E j \in DOMAIN roomParticipantsTable :
                             /\ roomParticipantsTable[j].room_id = r
                             /\ roomParticipantsTable[j].user_id = row.user_id

\* C23: in every state each room has exactly one participant row with role admin,
\* the row of its owner; and across every step the participant rows that exist stay
\* as they are, and a row added by a joinRoom step has role member.
C23_OwnerIsTheOnlyAdmin ==
    /\ [](\A r \in DOMAIN roomsTable :
             LET admins == {i \in DOMAIN roomParticipantsTable :
                               /\ roomParticipantsTable[i].room_id = r
                               /\ roomParticipantsTable[i].participant_role = "admin"}
             IN  /\ Cardinality(admins) = 1
                 /\ \A i \in admins :
                       roomParticipantsTable[i].user_id = roomsTable[r].owner_id)
    /\ [][ /\ Len(roomParticipantsTable') >= Len(roomParticipantsTable)
           /\ \A i \in DOMAIN roomParticipantsTable :
                 roomParticipantsTable'[i] = roomParticipantsTable[i]
           /\ \A p \in Procs :
                 (proc[p].op = "joinRoom" /\ proc'[p] # proc[p]) =>
                    \A i \in DOMAIN roomParticipantsTable' \ DOMAIN roomParticipantsTable :
                       roomParticipantsTable'[i].participant_role = "member" ]_vars

\* C23 witness: a room has its owner as admin and another user as member.
C23_Witness ==
    \E r \in DOMAIN roomsTable, i, j \in DOMAIN roomParticipantsTable :
        /\ roomParticipantsTable[i] =
               [room_id |-> r, user_id |-> roomsTable[r].owner_id, participant_role |-> "admin"]
        /\ roomParticipantsTable[j].room_id = r
        /\ roomParticipantsTable[j].participant_role = "member"
        /\ roomParticipantsTable[j].user_id # roomsTable[r].owner_id

\* C24: sendMessage stores a message only when the room exists, is active and the
\* sender has a participant row for it. A call whose room is missing or inactive, or
\* whose sender has no participant row, ends in an error at that statement, and with
\* an active room and a participant row it does not end there unless the store
\* fails; the message table changes only at the insert, by one appended row of the
\* sender, whose room exists and holds a participant row of the sender, and is
\* active when nothing else ran during the call; so every stored message is from a
\* user with a participant row in its room.
C24_MessagesOnlyFromParticipants ==
    /\ [](\A i \in DOMAIN messagesTable :
             /\ messagesTable[i].room_id \in DOMAIN roomsTable
             /\ \E j \in DOMAIN roomParticipantsTable :
                   /\ roomParticipantsTable[j].room_id = messagesTable[i].room_id
                   /\ roomParticipantsTable[j].user_id = messagesTable[i].user_id)
    /\ [][ /\ \A p \in {q \in Procs : Starts(q, "sendMessage")} :
              \A u \in CallerIds, r \in RoomIds, t \in ReplyToInputs :
                 sendMessage(p, u, [room_id |-> r, reply_to_id |-> t]) =>
                    LET open == r \in DOMAIN roomsTable /\ roomsTable[r].is_active IN
                    /\ ~open => /\ EndsAtOnce
                                /\ last'.result \in {"Room not found or inactive",
                                                     "store failure"}
                    /\ open => \/ proc'[p].pc = "s_member"
                               \/ EndsAtOnce /\ last'.result = "store failure"
           /\ \A p \in Procs :
                 (proc[p].op = "sendMessage" /\ proc'[p] # proc[p]) =>
                    LET u == proc[p].userId
                        r == Val(proc[p].input).room_id
                        in == \E j \in DOMAIN roomParticipantsTable :
                                 /\ roomParticipantsTable[j].room_id = r
                                 /\ roomParticipantsTable[j].user_id = u
                    IN  /\ proc[p].pc = "s_member" =>
                              IF in
                              THEN \/ proc'[p].pc \in {"s_reply", "s_insert"}
                                   \/ EndsLater(p) /\ last'.result = "store failure"
                              ELSE /\ EndsLater(p)
                                   /\ last'.result \in
                                         {"User is not a participant in this room",
                                          "store failure"}
                        /\ IF proc[p].pc = "s_insert" /\ ~EndsLater(p)
                           THEN /\ messagesTable' = Append(messagesTable,
                                       [room_id |-> r, user_id |-> u,
                                        reply_to_id |-> Val(proc[p].input).reply_to_id,
                                        is_deleted |-> FALSE])
                                /\ in
                                /\ r \in DOMAIN roomsTable
                                /\ pre # None => roomsTable[r].is_active
                           ELSE messagesTable' = messagesTable
           /\ (\A p \in Procs : proc[p].op # "sendMessage" \/ proc'[p] = proc[p]) =>
                 messagesTable' = messagesTable ]_vars

\* C24 witness: a user whose joinRoom succeeded has sent a message to that room.
C24_Witness ==
    /\ last.op = "sendMessage" /\ last.result = "ok"
    /\ \E i \in DOMAIN messagesTable, j \in DOMAIN roomParticipantsTable :
          /\ roomParticipantsTable[j].participant_role = "member"
          /\ roomParticipantsTable[j].room_id = messagesTable[i].room_id
          /\ roomParticipantsTable[j].user_id = messagesTable[i].user_id
          /\ roomsTable[messagesTable[i].room_id].is_active

\* C25: a user is charged at most once per premium room: for every user and room
\* the ledger holds at most one spend row for joining that room.
C25_ChargedOncePerRoom ==
    \A u \in DOMAIN usersTable, r \in DOMAIN roomsTable :
        Cardinality({i \in DOMAIN goldTransactionsTable :
                        /\ goldTransactionsTable[i].user_id = u
                        /\ goldTransactionsTable[i].transaction_type = "spend"
                        /\ goldTransactionsTable[i].reference_id = Some(<<"room_join", r>>)})
            <= 1

\* the sum of the gold_cost of the first n rooms that are paid premium rooms and
\* that the user owns or has a participant row in
RECURSIVE PaidAccess(_, _)
PaidAccess(userId, n) ==
    IF n = 0 THEN 0
    ELSE (IF /\ roomsTable[n].room_type = "premium"
             /\ ~IsNull(roomsTable[n].gold_cost)
             /\ Val(roomsTable[n].gold_cost) > 0
             /\ \/ roomsTable[n].owner_id = userId
                \/ \E j \in DOMAIN roomParticipantsTable :
                      /\ roomParticipantsTable[j].room_id = n
                      /\ roomParticipantsTable[j].user_id = userId
          THEN Val(roomsTable[n].gold_cost) ELSE 0)
         + PaidAccess(userId, n - 1)

\* the sum of the amounts of the user's purchase rows
RECURSIVE Purchased(_, _)
Purchased(rows, userId) ==
    IF rows = << >> THEN 0
    ELSE (IF Head(rows).user_id = userId /\ Head(rows).transaction_type = "purchase"
          THEN Head(rows).amount ELSE 0)
         + Purchased(Tail(rows), userId)

\* C26: in every state, for every user, the sum of the gold_cost of the paid premium
\* rooms the user has created or joined is <= the balance the user started with
\* plus the sum of the user's purchases.
C26_NoAccessBeyondFunds ==
    \A u \in DOMAIN usersTable :
        PaidAccess(u, Len(roomsTable)) <= start + Purchased(goldTransactionsTable, u)

\* C27: when a purchaseGold of amount a and a joinRoom into a premium room of cost
\* c > 0 by the same user have both succeeded, one ending right after the other, and
\* they are the only calls that wrote ledger rows of that user, whose balance was
\* b >= c before both, then the step that ends the second one leaves the balance at
\* b + a - c.
C27_PurchaseAndJoinBothCount ==
    [][ \A p \in Procs :
            LET u == proc[p].userId
                Mine(row) == row.user_id = u
                mine == SelectSeq(goldTransactionsTable', Mine)
                Bought(row) == row.transaction_type = "purchase"
                Joined(row) == row.description = "Joined premium room"
                bought == SelectSeq(mine, Bought)
                joined == SelectSeq(mine, Joined)
            IN  (/\ EndsLater(p) /\ Alone(p)
                 /\ last'.result = "ok" /\ last.result = "ok"
                 /\ \/ proc[p].op = "joinRoom" /\ last.op = "purchaseGold"
                    \/ proc[p].op = "purchaseGold" /\ last.op = "joinRoom"
                 /\ Len(mine) = 2 /\ Len(bought) = 1 /\ Len(joined) = 1
                 /\ start >= -joined[1].amount) =>
                    usersTable'[u].gold_credits = start + bought[1].amount + joined[1].amount
      ]_vars

\* C28: operations are isolated per user: across every step, a user whose balance
\* changes is the user on whose behalf the handler taking the step was called, and
\* every ledger row the step appends carries that user; a step that is no statement
\* of a call changes no balance and appends no row.
C28_IsolatedPerUser ==
    [][ /\ \A v \in DOMAIN usersTable :
              usersTable'[v] # usersTable[v] =>
                 \E p \in Procs : proc'[p] # proc[p] /\ proc[p].userId = v
        /\ \A i \in DOMAIN goldTransactionsTable' \ DOMAIN goldTransactionsTable :
              \E p \in Procs :
                 proc'[p] # proc[p] /\ proc[p].userId = goldTransactionsTable'[i].user_id
        /\ Cardinality({p \in Procs : proc'[p] # proc[p]}) <= 1 ]_vars

\* C28 witness: a user has paid to join a premium room and its owner has received
\* nothing: the owner's balance is the starting balance minus the cost of creating
\* the room and the owner's only ledger row is that of the creation.
C28_Witness ==
    /\ last.op = "joinRoom" /\ last.result = "ok"
    /\ \E r \in DOMAIN roomsTable, i \in DOMAIN goldTransactionsTable :
          LET owner == roomsTable[r].owner_id IN
          /\ goldTransactionsTable[i].reference_id = Some(<<"room_join", r>>)
          /\ goldTransactionsTable[i].user_id # owner
          /\ Credits(owner) = start - Val(roomsTable[r].gold_cost)
          /\ SumAmounts(goldTransactionsTable, owner) = -Val(roomsTable[r].gold_cost)

\* C29: the creator's admin row counts toward the capacity: a room created with
\* max_participants = N holds the admin row of its owner, and the rows that
\* successful joinRoom calls have added to it (the "member" rows) are at most N - 1.
C29_CreatorCountsTowardCapacity ==
    \A r \in DOMAIN roomsTable :
        ~IsNull(roomsTable[r].max_participants) =>
            LET admins == {i \in ParticipantsOf(r) :
                              /\ roomParticipantsTable[i].user_id = roomsTable[r].owner_id
                              /\ roomParticipantsTable[i].participant_role = "admin"}
                joined == {i \in ParticipantsOf(r) : roomParticipantsTable[i].participant_role = "member"}
            IN  /\ Cardinality(admins) = 1
                /\ Cardinality(joined) <= Val(roomsTable[r].max_participants) - 1

\* C30: a registerUser call that succeeds creates the user, who did not exist, with
\* gold_credits = 100, leaves every other user row alone and appends nothing to the
\* ledger, which holds no row of the new user: a freshly registered user has
\* balance 100 and an empty ledger. A registerUser call that fails creates no user.
C30_RegisterGivesWelcomeBonus ==
    [][ /\ \A p \in Procs :
              (proc[p].op = "registerUser" /\ EndsLater(p)) =>
                 LET u == proc[p].userId IN
                 IF last'.result = "ok"
                 THEN /\ u \notin DOMAIN usersTable
                      /\ DOMAIN usersTable' = DOMAIN usersTable \cup {u}
                      /\ usersTable'[u].gold_credits = 100
                      /\ \A v \in DOMAIN usersTable : usersTable'[v] = usersTable[v]
                      /\ goldTransactionsTable' = goldTransactionsTable
                      /\ \A i \in DOMAIN goldTransactionsTable' :
                            goldTransactionsTable'[i].user_id # u
                 ELSE usersTable' = usersTable /\ goldTransactionsTable' = goldTransactionsTable
        /\ (EndsAtOnce /\ last'.op = "registerUser") =>
              /\ last'.result # "ok"
              /\ usersTable' = usersTable /\ goldTransactionsTable' = goldTransactionsTable
      ]_vars

\* C30 witness: the registration of u3 has just succeeded; u3 holds 100 credits and
\* the ledger, which is not empty, has no row of u3.
C30_Witness ==
    /\ last.op = "registerUser" /\ last.result = "ok"
    /\ "u3" \in DOMAIN usersTable
    /\ usersTable["u3"].gold_credits = 100
    /\ goldTransactionsTable # << >>
    /\ \A i \in DOMAIN goldTransactionsTable : goldTransactionsTable[i].user_id # "u3"

====
